---- MODULE Spec2Model ----
(***************************************************************************)
(* Model of the Express rate limiter middleware (createExpressLimiter and  *)
(* the rateLimiter closure it returns).  Times are in milliseconds.        *)
(***************************************************************************)
EXTENDS Integers, Sequences, FiniteSets, TLC

\* ---------------------------------------------------------------- bounds
\* The clock advances at most MaxTicks times.
MaxTicks == 3

\* Steps by which the clock (Date.now()) advances between two requests.
Deltas == {500}

\* The clock never runs past MaxTime.
MaxTime == MaxTicks * 500

\* Request keys (keyGen(req), by default req.ip).
Keys == {"A", "B"}

\* Requests that can be in flight at once.
Reqs == {1, 2}

\* Configurations handed to createExpressLimiter.
MaxValues == {-1, 0, 1, 2}
WindowValues == {0, 1000}
CooldownValues == {-500, 0, 500, 1500}

\* ---------------------------------------------------------------- state
VARIABLES
    max,            \* options.max
    windowMs,       \* options.windowMs
    cooldownMs,     \* options.cooldownMs
    requestStore,   \* Map<key, number[]>
    cooldownStore,  \* Map<key, number>
    now,            \* the value Date.now() returns
    out,            \* what the last rateLimiter call did: next() or a denial response
    allowedLog,     \* history: per key, the times of its Allowed requests still within windowMs
    hist,           \* history: per key, its calls since the key last started from no state
    solo,           \* history: per key, the stores of a limiter that sees this key's counted requests only
    soloOut,        \* history: the decision of that limiter for the last counted request
    calls           \* the requests in flight: per request, how far its rateLimiter call has come

vars == <<max, windowMs, cooldownMs, requestStore, cooldownStore, now, out,
          allowedLog, hist, solo, soloOut, calls>>

\* The history variables.
histories == <<allowedLog, hist, solo, soloOut>>

config == <<max, windowMs, cooldownMs>>

\* ------------------------------------------------------- Map operations
EmptyMap == [k \in {} |-> 0]

\* Map.prototype.has
has(store, key) == key \in DOMAIN store

\* Map.prototype.set
set(store, key, value) ==
    [k \in DOMAIN store \cup {key} |-> IF k = key THEN value ELSE store[k]]

\* A delete that drops every entry (Map.prototype.clear).
deleteAll(store, key) == EmptyMap

\* Map.prototype.delete
delete(store, key) == [k \in DOMAIN store \ {key} |-> store[k]]

\* --------------------------------------------------- pieces of rateLimiter
\* Math.floor(ms / 1000).
floorSeconds(ms) == ms \div 1000

\* Math.ceil(ms / 1000): the remainingTime of a denial, in seconds.
ceilSeconds(ms) == -((-ms) \div 1000)

\* Prune with a non-strict comparison.
filterInclusive(ts, t) == SelectSeq(ts, LAMBDA x : t - x <= windowMs)

\* requestStore.get(key).filter(ts => now - ts < windowMs)
filter(ts, t) == SelectSeq(ts, LAMBDA x : t - x < windowMs)

\* A threshold test that lets one more request through.
overLimitStrict(timestamps) == Len(timestamps) > max

\* timestamps.length >= max
overLimit(timestamps) == Len(timestamps) >= max

\* A cooldown that only holds while the window is still full.
blockedWhileFull(rs, cs, key, t) ==
    /\ has(cs, key)
    /\ cs[key] - t > 0
    /\ has(rs, key)
    /\ overLimit(filter(rs[key], t))

\* cooldownStore.has(key) with remainingMs = blockedUntil - now > 0
blocked(rs, cs, key, t) ==
    /\ has(cs, key)
    /\ cs[key] - t > 0

\* options.statusCode and options.message, at their defaults.
statusCode == 429

message == "Rate limit exceeded. Please try again later."

\* The body of a denial response.
json(remainingTime) ==
    [status |-> statusCode, message |-> message, remainingTime |-> remainingTime]

\* A denial without its return: the request is forwarded as well.
ResponseFallThrough(rs, cs, decision, remainingTime) ==
    [requestStore |-> rs, cooldownStore |-> cs,
     decision |-> decision, remainingTime |-> remainingTime,
     next |-> 1,
     sent |-> IF decision = "Deny" THEN <<json(remainingTime)>> ELSE <<>>]

\* What a call ends with: return next() for Allow, and
\* return res.status(statusCode).json({...}) for Deny.  next counts the
\* calls of next(), sent holds the responses sent.
Response(rs, cs, decision, remainingTime) ==
    [requestStore |-> rs, cooldownStore |-> cs,
     decision |-> decision, remainingTime |-> remainingTime,
     next |-> IF decision = "Allow" THEN 1 ELSE 0,
     sent |-> IF decision = "Deny" THEN <<json(remainingTime)>> ELSE <<>>]

\* A blocked denial that restarts the cooldown.
blockedDenialExtend(rs, cs, key, t) ==
    Response(rs, set(cs, key, t + cooldownMs), "Deny", ceilSeconds(cs[key] - t))

\* A blocked denial that stores the pruned window record.
blockedDenialPrune(rs, cs, key, t) ==
    Response(IF has(rs, key) THEN set(rs, key, filter(rs[key], t)) ELSE rs,
             cs, "Deny", ceilSeconds(cs[key] - t))

\* The denial of a request that arrives during the cooldown.
blockedDenial(rs, cs, key, t) ==
    Response(rs, cs, "Deny", ceilSeconds(cs[key] - t))

\* An expiry that forgets the window record.
expireCooldownOnly(rs, cs, key) ==
    [requestStore |-> rs, cooldownStore |-> delete(cs, key)]

\* cooldownStore.delete(key); requestStore.delete(key)
expire(rs, cs, key) ==
    [requestStore |-> delete(rs, key), cooldownStore |-> delete(cs, key)]

\* A window step that blocks the key in the call that brings the count to max.
windowEager(rs, cs, key, t) ==
    LET rs1 == IF ~has(rs, key) THEN set(rs, key, <<>>) ELSE rs
        timestamps == filter(rs1[key], t)
    IN  IF overLimit(timestamps)
        THEN LET cs1 == IF ~has(cs, key) THEN set(cs, key, t + cooldownMs) ELSE cs
             IN  Response(rs1, cs1, "Deny", ceilSeconds(cs1[key] - t))
        ELSE Response(set(rs1, key, Append(timestamps, t)),
                      IF overLimit(Append(timestamps, t))
                      THEN set(cs, key, t + cooldownMs) ELSE cs,
                      "Allow", 0)

\* A window step that records the request before the threshold test.
windowCountDenied(rs, cs, key, t) ==
    LET rs1 == IF ~has(rs, key) THEN set(rs, key, <<>>) ELSE rs
        timestamps == filter(rs1[key], t)
    IN  IF overLimit(timestamps)
        THEN LET cs1 == IF ~has(cs, key) THEN set(cs, key, t + cooldownMs) ELSE cs
             IN  Response(set(rs1, key, Append(timestamps, t)), cs1, "Deny",
                          ceilSeconds(cs1[key] - t))
        ELSE Response(set(rs1, key, Append(timestamps, t)), cs, "Allow", 0)

\* The sliding-window part of rateLimiter: prune, threshold test, append.
window(rs, cs, key, t) ==
    LET rs1 == IF ~has(rs, key) THEN set(rs, key, <<>>) ELSE rs
        timestamps == filter(rs1[key], t)
    IN  IF overLimit(timestamps)
        THEN LET cs1 == IF ~has(cs, key) THEN set(cs, key, t + cooldownMs) ELSE cs
                 remaining == cs1[key] - t
             IN  Response(rs1, cs1, "Deny", ceilSeconds(remaining))
        ELSE Response(set(rs1, key, Append(timestamps, t)), cs, "Allow", 0)

\* rateLimiter after the skip check: the decision for key at time t.
decide(rs, cs, key, t) ==
    IF blocked(rs, cs, key, t)
    THEN blockedDenial(rs, cs, key, t)
    ELSE IF has(cs, key)
         THEN LET e == expire(rs, cs, key)
              IN  window(e.requestStore, e.cooldownStore, key, t)
         ELSE window(rs, cs, key, t)

\* A skip check that still counts the request.
bypassCounted(rs, cs, key, t) ==
    Response(set(rs, key, Append(IF has(rs, key) THEN rs[key] ELSE <<>>, t)), cs, "Allow", 0)

\* if (skip(req, res)) return next();
bypass(rs, cs, key, t) == Response(rs, cs, "Allow", 0)

\* ------------------------------------------------------------ histories
Max2(a, b) == IF a >= b THEN a ELSE b

\* The newest n elements of s.
Newest(s, n) == IF Len(s) <= n THEN s ELSE SubSeq(s, Len(s) - n + 1, Len(s))

NoState(key) == ~has(requestStore, key) /\ ~has(cooldownStore, key)

\* The call for key at time t clears an elapsed cooldown.
Expires(key, t) == has(cooldownStore, key) /\ ~(cooldownStore[key] - t > 0)

HistEntry(r, key, t) ==
    [t |-> t, decision |-> r.decision,
     blocked |-> has(r.cooldownStore, key),
     blockedUntil |-> IF has(r.cooldownStore, key) THEN r.cooldownStore[key] ELSE 0]

\* No request is being answered.
NoOutcome ==
    [key |-> "-", skip |-> FALSE, decision |-> "None", remainingTime |-> 0,
     next |-> 0, sent |-> <<>>]

NoDecision == [decision |-> "None", remainingTime |-> 0]

\* A request slot with no request in flight.
Idle ==
    [stage |-> "idle", key |-> "-", now |-> 0, timestamps |-> <<>>,
     seenRequestStore |-> EmptyMap, seenCooldownStore |-> EmptyMap]

\* ---------------------------------------------------------------- Init
\* createExpressLimiter(options): both stores start empty.
createExpressLimiter ==
    /\ max \in MaxValues
    /\ windowMs \in WindowValues
    /\ cooldownMs \in CooldownValues
    /\ requestStore = EmptyMap
    /\ cooldownStore = EmptyMap
    /\ now = 0
    /\ out = NoOutcome
    /\ allowedLog = [k \in Keys |-> <<>>]
    /\ hist = [k \in Keys |-> <<>>]
    /\ solo = [k \in Keys |-> [requestStore |-> EmptyMap, cooldownStore |-> EmptyMap]]
    /\ soloOut = NoDecision
    /\ calls = [i \in Reqs |-> Idle]

Init == createExpressLimiter

\* -------------------------------------------------------------- actions
\* What the call for key has done when it returns with r.
Outcome(key, skipped, r) ==
    [key |-> key, skip |-> skipped,
     decision |-> r.decision, remainingTime |-> r.remainingTime,
     next |-> r.next, sent |-> r.sent]

\* One request handled by rateLimiter(req, res, next); key = keyGen(req),
\* skipped = skip(req, res).  The handler is synchronous: it runs to completion.
rateLimiter(key, skipped) ==
    LET r == IF skipped THEN bypass(requestStore, cooldownStore, key, now)
             ELSE decide(requestStore, cooldownStore, key, now)
        s == decide(solo[key].requestStore, solo[key].cooldownStore, key, now)
    IN  /\ requestStore' = r.requestStore
        /\ cooldownStore' = r.cooldownStore
        /\ out' = Outcome(key, skipped, r)
        /\ allowedLog' =
             IF ~skipped /\ r.decision = "Allow"
             THEN [allowedLog EXCEPT ![key] =
                     Newest(Append(filter(@, now), now), Max2(max, 0) + 1)]
             ELSE allowedLog
        /\ hist' =
             IF skipped THEN hist
             ELSE IF NoState(key) \/ Expires(key, now)
                  THEN [hist EXCEPT ![key] = <<HistEntry(r, key, now)>>]
                  ELSE IF Len(hist[key]) <= Max2(max, 0)
                       THEN [hist EXCEPT ![key] = Append(@, HistEntry(r, key, now))]
                       ELSE hist
        /\ solo' =
             IF skipped THEN solo
             ELSE [solo EXCEPT ![key] =
                     [requestStore |-> s.requestStore, cooldownStore |-> s.cooldownStore]]
        /\ soloOut' =
             IF skipped THEN soloOut
             ELSE [decision |-> s.decision, remainingTime |-> s.remainingTime]
        /\ UNCHANGED <<config, now, calls>>

\* The clock moves on between two requests; the last request has been answered.
Advance(d) ==
    /\ now + d <= MaxTime
    /\ now' = now + d
    /\ out' = NoOutcome
    /\ soloOut' = NoDecision
    /\ UNCHANGED <<config, requestStore, cooldownStore, allowedLog, hist, solo, calls>>

Request == \E key \in Keys : \E skipped \in BOOLEAN : rateLimiter(key, skipped)

Tick == \E d \in Deltas : Advance(d)

Next == Request \/ Tick

Spec == Init /\ [][Next]_vars

\* ------------------------------------------------ requests in flight
\* rateLimiter up to the read of the window record, for a key that is not
\* blocked: clear an elapsed cooldown, create a missing window record, and
\* read and prune the timestamps into the call's local constant.
readStep(rs, cs, key, t) ==
    LET e == IF has(cs, key) THEN expire(rs, cs, key)
             ELSE [requestStore |-> rs, cooldownStore |-> cs]
        rs1 == IF ~has(e.requestStore, key) THEN set(e.requestStore, key, <<>>)
               ELSE e.requestStore
    IN  [requestStore |-> rs1, cooldownStore |-> e.cooldownStore,
         timestamps |-> filter(rs1[key], t)]

\* rateLimiter from the threshold test on, with the timestamps it has read.
writeStep(rs, cs, key, t, timestamps) ==
    IF overLimit(timestamps)
    THEN LET cs1 == IF ~has(cs, key) THEN set(cs, key, t + cooldownMs) ELSE cs
             remaining == cs1[key] - t
         IN  Response(rs, cs1, "Deny", ceilSeconds(remaining))
    ELSE Response(set(rs, key, Append(timestamps, t)), cs, "Allow", 0)

\* A handler that yields between its read and its write, so that another
\* call may start meanwhile.
interleaved(id) == TRUE

\* rateLimiter is a synchronous function with no await or callback between
\* its first read and its last write: once a call has started, no other call
\* starts before it has returned.
runToCompletion(id) == \A j \in Reqs \ {id} : calls[j].stage # "read"

\* A request for key arrives and waits for its rateLimiter call.
arrive(id, key) ==
    /\ calls[id].stage = "idle"
    /\ calls' = [calls EXCEPT ![id] = [Idle EXCEPT !.stage = "pending", !.key = key]]
    /\ UNCHANGED <<config, requestStore, cooldownStore, now, out, histories>>

\* The rateLimiter call of request id starts: skip check, key, now, cooldown
\* check, and the read of the window record.
enter(id, skipped) ==
    LET key == calls[id].key IN
    /\ calls[id].stage = "pending"
    /\ runToCompletion(id)
    /\ IF skipped \/ blocked(requestStore, cooldownStore, key, now)
       THEN LET r == IF skipped THEN bypass(requestStore, cooldownStore, key, now)
                     ELSE blockedDenial(requestStore, cooldownStore, key, now)
            IN  /\ requestStore' = r.requestStore
                /\ cooldownStore' = r.cooldownStore
                /\ out' = Outcome(key, skipped, r)
                /\ calls' = [calls EXCEPT ![id] = Idle]
       ELSE LET rd == readStep(requestStore, cooldownStore, key, now)
            IN  /\ requestStore' = rd.requestStore
                /\ cooldownStore' = rd.cooldownStore
                /\ out' = out
                /\ calls' = [calls EXCEPT ![id] =
                               [stage |-> "read", key |-> key, now |-> now,
                                timestamps |-> rd.timestamps,
                                seenRequestStore |-> requestStore,
                                seenCooldownStore |-> cooldownStore]]
    /\ UNCHANGED <<config, now, histories>>

\* The rateLimiter call of request id goes on from the threshold test to
\* its return.
finish(id) ==
    LET f == calls[id]
        r == writeStep(requestStore, cooldownStore, f.key, f.now, f.timestamps)
    IN  /\ f.stage = "read"
        /\ requestStore' = r.requestStore
        /\ cooldownStore' = r.cooldownStore
        /\ out' = Outcome(f.key, FALSE, r)
        /\ calls' = [calls EXCEPT ![id] = Idle]
        /\ UNCHANGED <<config, now, histories>>

Arrive == \E id \in Reqs : \E key \in Keys : arrive(id, key)

Enter == \E id \in Reqs : \E skipped \in BOOLEAN : enter(id, skipped)

Finish == \E id \in Reqs : finish(id)

NextConc == Arrive \/ Enter \/ Finish \/ Tick

SpecConc == Init /\ [][NextConc]_vars

\* ------------------------------------------------- time without bound
\* rateLimiter with only the log of Allowed requests kept as history.
serve(key, skipped) ==
    LET r == IF skipped THEN bypass(requestStore, cooldownStore, key, now)
             ELSE decide(requestStore, cooldownStore, key, now)
    IN  /\ requestStore' = r.requestStore
        /\ cooldownStore' = r.cooldownStore
        /\ out' = Outcome(key, skipped, r)
        /\ allowedLog' =
             IF ~skipped /\ r.decision = "Allow"
             THEN [allowedLog EXCEPT ![key] =
                     Newest(Append(filter(@, now), now), Max2(max, 0) + 1)]
             ELSE allowedLog
        /\ UNCHANGED <<config, now, hist, solo, soloOut, calls>>

\* A stored time seen d later from a clock that stays at MaxTime.  Times at
\* or before 0 are kept at 0: they are at least MaxTime old, so a timestamp
\* there is out of every window and a blockedUntil there has elapsed.
Earlier(t, d) == Max2(t - d, 0)

\* The clock moves on by d once it has reached MaxTime: now keeps its value
\* and every stored time moves d into the past instead.
pass(d) ==
    /\ now + d > MaxTime
    /\ requestStore' =
         [k \in DOMAIN requestStore |->
            [i \in 1..Len(requestStore[k]) |-> Earlier(requestStore[k][i], d)]]
    /\ cooldownStore' = [k \in DOMAIN cooldownStore |-> Earlier(cooldownStore[k], d)]
    /\ allowedLog' =
         [k \in Keys |-> [i \in 1..Len(allowedLog[k]) |-> Earlier(allowedLog[k][i], d)]]
    /\ out' = NoOutcome
    /\ UNCHANGED <<config, now, hist, solo, soloOut, calls>>

Serve == \E key \in Keys : \E skipped \in BOOLEAN : serve(key, skipped)

Pass == \E d \in Deltas : pass(d)

NextLive == Serve \/ Tick \/ Pass

\* Time advances without bound and every key keeps sending requests.
SpecLive ==
    /\ Init
    /\ [][NextLive]_vars
    /\ WF_vars(Tick \/ Pass)
    /\ \A k \in Keys : WF_vars(serve(k, FALSE))

\* ------------------------------------------------------- claim helpers
\* This step is a rateLimiter call for key (bypassed or not).
AnyCallFor(key) == out'.key = key /\ now' = now

\* This step is a rateLimiter call for key that is not bypassed.
CallFor(key) == AnyCallFor(key) /\ ~out'.skip

\* The entry of key in store: <<value>>, or <<>> when the store has none.
Entry(store, key) == IF has(store, key) THEN <<store[key]>> ELSE <<>>

\* n is the ceiling of ms / 1000.
IsCeil(n, ms) == (n - 1) * 1000 < ms /\ ms <= n * 1000

\* ------------------------------------------------------------------ C1
\* C1 (as claimed): with max >= 1, windowMs > 0 and cooldownMs >= 0, no key
\* has more than max Allowed requests inside a time interval of length
\* windowMs.  allowedLog[k] holds the Allowed requests of k that lie less
\* than windowMs before its newest Allowed request.
RateBound ==
    (max >= 1 /\ windowMs > 0 /\ cooldownMs >= 0) =>
        \A k \in Keys : Len(allowedLog[k]) <= max

\* ------------------------------------------------------------------ C2
\* C2: with max >= 1, the first max requests of a key that starts from no
\* state are Allowed and create no cooldown record as long as they lie
\* within windowMs of the first one, and the request after them, arriving
\* while they are all still inside the window, is Denied and creates a
\* cooldown record with blockedUntil = now + cooldownMs.
AllowUpToMax ==
    max >= 1 =>
        \A k \in Keys :
            LET h == hist[k] IN
            /\ \A i \in 1..Len(h) :
                 (i <= max /\ h[i].t - h[1].t < windowMs) =>
                     (h[i].decision = "Allow" /\ ~h[i].blocked)
            /\ (Len(h) = max + 1 /\ h[max + 1].t - h[1].t < windowMs) =>
                 /\ h[max + 1].decision = "Deny"
                 /\ h[max + 1].blocked
                 /\ h[max + 1].blockedUntil = h[max + 1].t + cooldownMs

\* Two requests at different times were Allowed and the third was Denied.
AllowUpToMaxWitness ==
    \E k \in Keys :
        /\ max = 2
        /\ Len(hist[k]) = 3
        /\ hist[k][1].t < hist[k][2].t
        /\ hist[k][3].t - hist[k][1].t < windowMs
        /\ hist[k][2].decision = "Allow"
        /\ hist[k][3].decision = "Deny"

\* ------------------------------------------------------------------ C3
\* C3: a non-bypassed request for a key whose cooldown record says
\* now < blockedUntil is Denied, whatever the key's window record holds.
HardBlock ==
    [][\A k \in Keys :
         (CallFor(k) /\ has(cooldownStore, k) /\ now < cooldownStore[k]) =>
             out'.decision = "Deny"]_vars

\* A request was Denied during the cooldown although every timestamp of the
\* key's window record has left the window.
HardBlockWitness ==
    \E k \in Keys :
        /\ out.key = k /\ ~out.skip /\ out.decision = "Deny"
        /\ has(cooldownStore, k) /\ now < cooldownStore[k]
        /\ has(requestStore, k) /\ requestStore[k] # <<>>
        /\ filter(requestStore[k], now) = <<>>

\* ------------------------------------------------------------------ C4
\* C4: a key's cooldown record stays in place with the same blockedUntil in
\* every step except the call that clears it (the non-bypassed call for
\* that key with now >= blockedUntil).
CooldownNonExtension ==
    [][\A k \in Keys :
         (has(cooldownStore, k) /\ ~(CallFor(k) /\ Expires(k, now))) =>
             (has(cooldownStore', k) /\ cooldownStore'[k] = cooldownStore[k])]_vars

\* A request was Denied later than the call that created the cooldown.
CooldownNonExtensionWitness ==
    \E k \in Keys :
        /\ out.key = k /\ ~out.skip /\ out.decision = "Deny"
        /\ has(cooldownStore, k)
        /\ now < cooldownStore[k]
        /\ cooldownStore[k] < now + cooldownMs

\* ------------------------------------------------------------------ C5
\* C5: a non-bypassed call for a key whose cooldown record says
\* now >= blockedUntil ends as the call of a never-seen key does: with
\* max >= 1 it is Allowed, the key has no cooldown record and its window
\* record is <<now>>; with max <= 0 it is Denied with a new cooldown and an
\* empty window record.
ResetOnExpiry ==
    [][\A k \in Keys :
         (CallFor(k) /\ has(cooldownStore, k) /\ now >= cooldownStore[k]) =>
             LET fresh == decide(EmptyMap, EmptyMap, k, now) IN
             /\ out'.decision = fresh.decision
             /\ out'.remainingTime = fresh.remainingTime
             /\ Entry(requestStore', k) = Entry(fresh.requestStore, k)
             /\ Entry(cooldownStore', k) = Entry(fresh.cooldownStore, k)
             /\ max >= 1 =>
                  /\ out'.decision = "Allow"
                  /\ ~has(cooldownStore', k)
                  /\ Entry(requestStore', k) = << <<now>> >>
             /\ max <= 0 =>
                  /\ out'.decision = "Deny"
                  /\ Entry(requestStore', k) = << <<>> >>
                  /\ Entry(cooldownStore', k) = <<now + cooldownMs>>]_vars

\* A request arriving exactly at blockedUntil was Allowed, and the window
\* record has lost a timestamp that is still inside the window.
ResetOnExpiryWitness ==
    \E k \in Keys :
        /\ out.key = k /\ ~out.skip /\ out.decision = "Allow"
        /\ cooldownMs > 0
        /\ Len(allowedLog[k]) = 2
        /\ now = allowedLog[k][1] + cooldownMs
        /\ now - allowedLog[k][1] < windowMs
        /\ requestStore[k] = <<now>>
        /\ ~has(cooldownStore, k)

\* ------------------------------------------------------------------ C6
\* C6: a call for key a leaves the window record and the cooldown record of
\* every other key unchanged, and its decision is the one a limiter that
\* has only ever seen a's requests gives.
KeyIsolation ==
    [][\A a \in Keys :
         /\ AnyCallFor(a) =>
              \A b \in Keys \ {a} :
                  /\ Entry(requestStore', b) = Entry(requestStore, b)
                  /\ Entry(cooldownStore', b) = Entry(cooldownStore, b)
         /\ CallFor(a) =>
              /\ out'.decision = soloOut'.decision
              /\ out'.remainingTime = soloOut'.remainingTime]_vars

\* Key A was Allowed while key B is serving a cooldown.
KeyIsolationWitness ==
    /\ out.key = "A" /\ ~out.skip /\ out.decision = "Allow"
    /\ has(cooldownStore, "B") /\ now < cooldownStore["B"]
    /\ Len(requestStore["A"]) = 2

\* ------------------------------------------------------------------ C7
\* C7: a bypassed request is forwarded and changes neither store, and the
\* stores always hold, for every key, what a limiter that never saw the
\* bypassed requests holds.
BypassTransparency ==
    /\ [][\A k \in Keys :
            (AnyCallFor(k) /\ out'.skip) =>
                /\ out'.decision = "Allow"
                /\ requestStore' = requestStore
                /\ cooldownStore' = cooldownStore]_vars
    /\ [](\A k \in Keys :
            /\ Entry(requestStore, k) = Entry(solo[k].requestStore, k)
            /\ Entry(cooldownStore, k) = Entry(solo[k].cooldownStore, k))

\* A request was bypassed while its key was serving a cooldown.
BypassTransparencyWitness ==
    \E k \in Keys :
        /\ out.key = k /\ out.skip /\ out.decision = "Allow"
        /\ has(cooldownStore, k) /\ now < cooldownStore[k]

\* ------------------------------------------------------------------ C8
\* C8 (as claimed): with max >= 1, windowMs >= 0 and cooldownMs >= 0, every
\* denial carries a remainingTime >= 1.
PositiveRemainingTime ==
    (max >= 1 /\ windowMs >= 0 /\ cooldownMs >= 0) =>
        (out.decision = "Deny" => out.remainingTime >= 1)

\* ------------------------------------------------------------------ C9
\* C9: every denial reports remainingTime = ceil((blockedUntil - now) / 1000)
\* for the cooldown in effect after the call: the stored one, unchanged,
\* when the key was blocked, and now + cooldownMs, hence
\* ceil(cooldownMs / 1000), on the call that creates the cooldown.
RemainingTimeValue ==
    [][\A k \in Keys :
         (CallFor(k) /\ out'.decision = "Deny") =>
             /\ has(cooldownStore', k)
             /\ IsCeil(out'.remainingTime, cooldownStore'[k] - now)
             /\ IF has(cooldownStore, k) /\ now < cooldownStore[k]
                THEN cooldownStore'[k] = cooldownStore[k]
                ELSE /\ cooldownStore'[k] = now + cooldownMs
                     /\ IsCeil(out'.remainingTime, cooldownMs)]_vars

\* A blocked key was Denied with 500 ms of a 1500 ms cooldown left.
RemainingTimeValueWitness ==
    \E k \in Keys :
        /\ out.key = k /\ ~out.skip /\ out.decision = "Deny"
        /\ cooldownMs = 1500
        /\ has(cooldownStore, k) /\ cooldownStore[k] - now = 500
        /\ out.remainingTime = 1

\* ----------------------------------------------------------------- C10
\* C10 (as claimed): after any rateLimiter call every stored window record
\* holds at most max timestamps.
WindowBound ==
    \A k \in Keys : has(requestStore, k) => Len(requestStore[k]) <= max

\* ----------------------------------------------------------------- C11
\* C11 (as claimed): after any call, a key whose window record holds max
\* timestamps has a cooldown record.
BlockedAtMax ==
    \A k \in Keys :
        (has(requestStore, k) /\ Len(requestStore[k]) = max) => has(cooldownStore, k)

\* C11 (amended): with max >= 1 an Allowed call, the one that brings the
\* count to max included, leaves the key without a cooldown record; the
\* cooldown record is created by a later non-bypassed call for the key that
\* finds max timestamps inside the window, and that call is Denied and
\* leaves the window record as it was.
BlockedAfterMax ==
    [][max >= 1 =>
         \A k \in Keys :
             CallFor(k) =>
                 /\ out'.decision = "Allow" => ~has(cooldownStore', k)
                 /\ (~has(cooldownStore, k) /\ has(cooldownStore', k)) =>
                      /\ out'.decision = "Deny"
                      /\ has(requestStore, k)
                      /\ Len(filter(requestStore[k], now)) = max
                      /\ requestStore'[k] = requestStore[k]]_vars

\* A call was Allowed, the window record holds max timestamps and the key
\* has no cooldown record.
BlockedAfterMaxWitness ==
    \E k \in Keys :
        /\ max = 2
        /\ out.key = k /\ ~out.skip /\ out.decision = "Allow"
        /\ Len(requestStore[k]) = max
        /\ ~has(cooldownStore, k)

\* ----------------------------------------------------------------- C12
\* C12: every call ends in exactly one outcome: Allow, with next() called
\* once and no response sent, or Deny, with next() not called and one
\* response sent that carries the configured statusCode and message.
ExactlyOneOutcome ==
    out.key \in Keys =>
        \/ /\ out.decision = "Allow"
           /\ out.next = 1
           /\ out.sent = <<>>
        \/ /\ out.decision = "Deny"
           /\ ~out.skip
           /\ out.next = 0
           /\ Len(out.sent) = 1
           /\ out.sent[1].status = statusCode
           /\ out.sent[1].message = message
           /\ out.sent[1].remainingTime = out.remainingTime

\* A request was Denied with one response and no call of next().
ExactlyOneOutcomeWitness ==
    /\ out.key \in Keys
    /\ out.decision = "Deny"
    /\ out.next = 0
    /\ Len(out.sent) = 1
    /\ out.sent[1].status = 429

\* ----------------------------------------------------------------- C13
\* C13: with several requests in flight, a call that returns has acted as
\* one atomic decision on the stores as they were when it started; the
\* timestamps it counted are those a fresh read gives (no stale length), and
\* it leaves a blockedUntil that is already stored as it is (the first
\* write wins).
Returns(id) == calls[id].stage = "read" /\ calls'[id].stage = "idle"

AtomicDecisions ==
    [][\A id \in Reqs :
         Returns(id) =>
             LET f == calls[id]
                 d == decide(f.seenRequestStore, f.seenCooldownStore, f.key, f.now)
             IN  /\ requestStore' = d.requestStore
                 /\ cooldownStore' = d.cooldownStore
                 /\ out'.decision = d.decision
                 /\ out'.remainingTime = d.remainingTime
                 /\ has(requestStore, f.key)
                 /\ f.timestamps = filter(requestStore[f.key], f.now)
                 /\ has(cooldownStore, f.key) =>
                      cooldownStore'[f.key] = cooldownStore[f.key]]_vars

\* Two requests for one key are in flight while the window holds max - 1
\* timestamps: the call of the first has been Allowed and has filled the
\* window, the second still waits.
AtomicDecisionsWitness ==
    \E k \in Keys : \E id \in Reqs :
        /\ max = 2
        /\ out.key = k /\ ~out.skip /\ out.decision = "Allow"
        /\ Len(requestStore[k]) = max
        /\ calls[id].stage = "pending"
        /\ calls[id].key = k

\* ----------------------------------------------------------------- C14
\* C14 (as claimed): a limiter built from an invalid configuration
\* (max <= 0, windowMs < 0 or cooldownMs < 0) never decides a request,
\* because its construction throws.
InvalidConfigurationRejected ==
    (max <= 0 \/ windowMs < 0 \/ cooldownMs < 0) => out.decision = "None"

BlockedDenialTouchesNothing ==
    [][\A k \in Keys :
         (CallFor(k) /\ has(cooldownStore, k) /\ cooldownStore[k] - now > 0) =>
             /\ requestStore' = requestStore
             /\ cooldownStore' = cooldownStore]_vars

\* A blocked key was Denied and its window record still holds a timestamp
\* that has left the window next to one that has not.
BlockedDenialTouchesNothingWitness ==
    \E k \in Keys :
        /\ out.key = k /\ ~out.skip /\ out.decision = "Deny"
        /\ has(cooldownStore, k)
        /\ cooldownStore[k] - now > 0
        /\ cooldownStore[k] < now + cooldownMs
        /\ Len(requestStore[k]) = 2
        /\ Len(filter(requestStore[k], now)) = 1

\* ----------------------------------------------------------------- C17
\* C17 (as claimed): after a non-bypassed call that is not answered by an
\* active cooldown, every timestamp t of the key's window record has
\* now - t < windowMs.
PruningComplete ==
    [][\A k \in Keys :
         (CallFor(k) /\ ~(has(cooldownStore, k) /\ cooldownStore[k] - now > 0)) =>
             /\ has(requestStore', k)
             /\ \A i \in 1..Len(requestStore'[k]) :
                    now - requestStore'[k][i] < windowMs]_vars

\* C17 (amended): after such a call every timestamp t of the key's window
\* record has now - t < windowMs, except the timestamp now that an Allowed
\* call has just appended when windowMs <= 0.
PruningCompleteAmended ==
    [][\A k \in Keys :
         (CallFor(k) /\ ~(has(cooldownStore, k) /\ cooldownStore[k] - now > 0)) =>
             /\ has(requestStore', k)
             /\ \A i \in 1..Len(requestStore'[k]) :
                    \/ now - requestStore'[k][i] < windowMs
                    \/ /\ windowMs <= 0
                       /\ out'.decision = "Allow"
                       /\ i = Len(requestStore'[k])
                       /\ requestStore'[k][i] = now]_vars

\* A request was Allowed exactly windowMs after the key's first Allowed
\* request, and the first timestamp is gone from the window record.
PruningCompleteWitness ==
    \E k \in Keys :
        /\ windowMs > 0
        /\ out.key = k /\ ~out.skip /\ out.decision = "Allow"
        /\ Len(hist[k]) = 2
        /\ hist[k][1].decision = "Allow"
        /\ hist[k][1].t = now - windowMs
        /\ hist[k][2].t = now
        /\ requestStore[k] = <<now>>

\* ----------------------------------------------------------------- C18
\* C18: every stored window record is non-decreasing and is made of the
\* newest Allowed request times of its key, and a step adds a timestamp to
\* a record only when it is an Allowed, non-bypassed call for that key, the
\* timestamp being now.
IsSuffix(s, l) ==
    /\ Len(s) <= Len(l)
    /\ \A i \in 1..Len(s) : s[i] = l[Len(l) - Len(s) + i]

Elems(s) == {s[i] : i \in 1..Len(s)}

WindowContent(k) == IF has(requestStore, k) THEN requestStore[k] ELSE <<>>

WindowRecordContent ==
    /\ [](\A k \in Keys :
            /\ \A i \in 1..Len(WindowContent(k)) : \A j \in i..Len(WindowContent(k)) :
                   WindowContent(k)[i] <= WindowContent(k)[j]
            /\ IsSuffix(WindowContent(k), allowedLog[k]))
    /\ [][\A k \in Keys :
            LET old == IF has(requestStore, k) THEN requestStore[k] ELSE <<>>
                new == IF has(requestStore', k) THEN requestStore'[k] ELSE <<>>
            IN  IF CallFor(k) /\ out'.decision = "Allow"
                THEN /\ new # <<>>
                     /\ new[Len(new)] = now
                     /\ IsSuffix(SubSeq(new, 1, Len(new) - 1), old)
                ELSE new = old]_vars

\* A window record holds two different Allowed request times, and the last
\* call for its key was Denied.
WindowRecordContentWitness ==
    \E k \in Keys :
        /\ out.key = k /\ ~out.skip /\ out.decision = "Deny"
        /\ Len(requestStore[k]) = 2
        /\ requestStore[k][1] < requestStore[k][2]
        /\ requestStore[k][2] < now

\* ----------------------------------------------------------------- C19
\* C19: with max >= 0 a key that has a cooldown record has a window record
\* of exactly max timestamps, and a step that removes or replaces a key's
\* cooldown record also drops every timestamp its window record held.
StoreCoupling ==
    /\ [](max >= 0 =>
            \A k \in Keys :
                has(cooldownStore, k) =>
                    (has(requestStore, k) /\ Len(requestStore[k]) = max))
    /\ [][\A k \in Keys :
            (has(cooldownStore, k) /\ Entry(cooldownStore', k) # Entry(cooldownStore, k)) =>
                /\ CallFor(k)
                /\ has(requestStore', k)
                /\ requestStore'[k] = (IF max >= 1 THEN <<now>> ELSE <<>>)]_vars

\* A cooldown record was just created next to a window record of two
\* timestamps.
StoreCouplingWitness ==
    \E k \in Keys :
        /\ max = 2
        /\ out.key = k /\ ~out.skip /\ out.decision = "Deny"
        /\ has(cooldownStore, k) /\ cooldownStore[k] = now + cooldownMs
        /\ Len(requestStore[k]) = 2

\* ----------------------------------------------------------------- C20
\* C20: with max >= 1, when time advances without bound and a key keeps
\* sending requests, that key is Allowed again and again.
NoPermanentBlock ==
    max >= 1 =>
        \A k \in Keys : []<>(out.key = k /\ ~out.skip /\ out.decision = "Allow")

\* A key was Allowed again after a block: its window record was reset
\* although its previous Allowed request is still inside the window.
NoPermanentBlockWitness ==
    \E k \in Keys :
        /\ max = 1 /\ cooldownMs > 0
        /\ out.key = k /\ ~out.skip /\ out.decision = "Allow"
        /\ Len(allowedLog[k]) = 2
        /\ allowedLog[k][1] < allowedLog[k][2]
        /\ requestStore[k] = <<now>>
        /\ now = MaxTime

TypeOK ==
    /\ DOMAIN requestStore \subseteq Keys
    /\ DOMAIN cooldownStore \subseteq Keys
    /\ now \in 0..MaxTime
====
